---- MODULE Spec2Model ----
(***************************************************************************)
(* Model of the regularized RBF interpolant (rbf/interpolant.py) and of    *)
(* the Monte Carlo batching loops (rbf/normalize.py).                      *)
(*                                                                         *)
(* Numbers are exact: an array entry is an integer, and a quantity that    *)
(* the code obtains through a matrix inverse is a fraction [num, den]      *)
(* over the determinant.  NaN is the fraction 0/0.  Points are             *)
(* one-dimensional (D = 1), so a point is an integer coordinate and a      *)
(* derivative multi-index is a 1-tuple.                                    *)
(***************************************************************************)
EXTENDS Integers, Sequences, FiniteSets

VARIABLES
  fpc,        \* position inside RBFInterpolant.__init__
  x,          \* argument x of __init__: the (N,1) training points
  value,      \* the caller's value array (the local name aliases it)
  weight,     \* the caller's weight argument: None or an array
  order,      \* argument order
  penalty,    \* argument penalty: a number or 'gcv'
  A,          \* local A of __init__
  L,          \* local L of __init__
  self,       \* the fields stored on the instance by __init__
  damping,    \* local damping of find_coeff once the search has set it
  ferr,       \* the exception __init__ ended with, "" if none
  call,       \* per caller thread: the locals of a running __call__
  mat,        \* arguments and results of the three matrix builders
  mc          \* locals of a running mcint or mcmax

fitvars == <<fpc, x, value, weight, order, penalty, A, L, self, damping, ferr>>

vars == <<fitvars, call, mat, mc>>

-----------------------------------------------------------------------------
(* Bounds of the model *)

\* largest number of training points
MaxN == 2
\* training coordinates are 0 .. MaxCoord
MaxCoord == 1

\* largest number of query points of one __call__
MaxItp == 3
\* chunk sizes are 1 .. MaxChunk (the code's max_chunk is 100000)
MaxChunk == 2

\* entries of a value array
ValueSet == {1, 2}
\* entries of a weight array
WeightSet == {1, 2}
\* polynomial orders
Orders == {0, 1}
\* values of 10**d the GCV search evaluates (d = 0 is fmin's initial guess)
GCVProbes == {1, 2}
\* numbers of training points for which damped fits (penalty > 0 or 'gcv')
\* are explored: with more points the determinant of the damped normal
\* matrix leaves the range of TLC's integers
DampedSizes == {1, 2}

-----------------------------------------------------------------------------
(* Arrays *)

None == [some |-> FALSE, v |-> <<>>]
Some(a) == [some |-> TRUE, v |-> a]

NaN == [num |-> 0, den |-> 0]
Frac(n, d) == [num |-> n, den |-> d]

Abs(a) == IF a < 0 THEN -a ELSE a

RECURSIVE Pow(_, _)
Pow(b, e) == IF e = 0 THEN 1 ELSE b * Pow(b, e - 1)

RECURSIVE SumSeq(_)
SumSeq(s) == IF s = <<>> THEN 0 ELSE Head(s) + SumSeq(Tail(s))

\* A function over 1..n is evaluated entry by entry on every use; Vec and Mat
\* turn it into the tuple of its values, so an array is computed once.
Vec(s) == s \o <<>>
Mat(m) == Vec([i \in 1..Len(m) |-> Vec(m[i])])

\* np.zeros(n), np.ones(n), np.zeros((r,c))
zeros(n) == Vec([i \in 1..n |-> 0])
ones(n) == Vec([i \in 1..n |-> 1])
zeros2(r, c) == Mat([i \in 1..r |-> [j \in 1..c |-> 0]])

Rows(m) == Len(m)
\* a matrix with no rows has no columns in this model
Cols(m) == IF Len(m) = 0 THEN 0 ELSE Len(m[1])

Transpose(m) == Mat([j \in 1..Cols(m) |-> [i \in 1..Rows(m) |-> m[i][j]]])
Dot(u, v) == SumSeq(Vec([k \in 1..Len(u) |-> u[k] * v[k]]))
MatVec(m, v) == Vec([i \in 1..Rows(m) |-> Dot(m[i], v)])
MatMul(a, b) ==
  LET bt == Transpose(b)
  IN  Mat([i \in 1..Rows(a) |-> [j \in 1..Cols(b) |-> Dot(a[i], bt[j])]])
MatAdd(a, b) ==
  Mat([i \in 1..Rows(a) |-> [j \in 1..Cols(a) |-> a[i][j] + b[i][j]]])
MatScale(c, a) ==
  Mat([i \in 1..Rows(a) |-> [j \in 1..Cols(a) |-> c * a[i][j]]])

\* m without row r and column c
Minor(m, r, c) ==
  Mat([i \in 1..(Rows(m) - 1) |-> [j \in 1..(Cols(m) - 1) |->
     m[IF i < r THEN i ELSE i + 1][IF j < c THEN j ELSE j + 1]]])

RECURSIVE Det(_)
Det(m) ==
  IF Rows(m) = 0 THEN 1
  ELSE IF Rows(m) = 1 THEN m[1][1]
  ELSE SumSeq(Vec([j \in 1..Cols(m) |->
         IF m[1][j] = 0 THEN 0
         ELSE (IF j % 2 = 1 THEN 1 ELSE -1) * m[1][j] * Det(Minor(m, 1, j))]))

\* the adjugate: inv(m) = Adj(m) / Det(m)
Adj(m) ==
  Mat([i \in 1..Rows(m) |-> [j \in 1..Cols(m) |->
     (IF (i + j) % 2 = 0 THEN 1 ELSE -1) * Det(Minor(m, j, i))]])

\* A[r0+1 .. r0+Rows(b), c0+1 .. c0+Cols(b)] = b
SetBlock(m, r0, c0, b) ==
  Mat([i \in 1..Rows(m) |-> [j \in 1..Cols(m) |->
     IF i > r0 /\ i <= r0 + Rows(b) /\ j > c0 /\ j <= c0 + Cols(b)
     THEN b[i - r0][j - c0] ELSE m[i][j]]])

-----------------------------------------------------------------------------
(* rbf.basis and rbf.poly, which interpolant.py calls *)

\* the derivative order a diff argument asks for (diff=None is no derivative)
DiffOrder(diff) == IF diff.some THEN diff.v[1] ELSE 0

\* rbf.basis.phs3: (eps*r)^3 with r = |x - c|, one eps per centre, and its
\* first and second derivative in x
phs3(xa, c, eps, diff) ==
  Mat([i \in 1..Len(xa) |-> [j \in 1..Len(c) |->
     LET r == Abs(xa[i] - c[j])
         e == eps[j]
         d == DiffOrder(diff)
     IN  IF d = 0 THEN Pow(e * r, 3)
         ELSE IF d = 1 THEN 3 * Pow(e, 3) * (xa[i] - c[j]) * r
         ELSE 6 * Pow(e, 3) * r]])

\* rbf.poly.monomial_powers(order, D) for D = 1: the exponents 0 .. order
monomial_powers(ord, D) == Vec([k \in 1..(ord + 1) |-> <<k - 1>>])

RECURSIVE Falling(_, _)
Falling(p, d) == IF d = 0 THEN 1 ELSE p * Falling(p - 1, d - 1)

\* rbf.poly.mvmonos(x, powers, diff): the monomials, or their derivatives, at
\* the points
mvmonos(pts, powers, diff) ==
  Mat([i \in 1..Len(pts) |-> [k \in 1..Len(powers) |->
     LET p == powers[k][1]
         d == DiffOrder(diff)
     IN  IF p < d THEN 0 ELSE Falling(p, d) * Pow(pts[i], p - d)]])

-----------------------------------------------------------------------------
(* rbf/interpolant.py: module functions *)

product_trace(a, b) ==
  LET bt == Transpose(b)
  IN  SumSeq(Vec([i \in 1..Rows(a) |-> Dot(a[i], bt[i])]))

\* one (coefficient, derivative) term per dimension: I = eye(dim), 2*i
laplacian_diff_op(dim) ==
  Vec([i \in 1..dim |->
         [c |-> 1, d |-> Vec([k \in 1..dim |-> IF k = i THEN 2 ELSE 0])]])

\* fault variant: the bottom-left block A[N:,:N] = Ap.T is left out
coefficient_matrix_notranspose(xs, eps, ord) ==
  LET N == Len(xs)
      powers == monomial_powers(ord, 1)
      P == Len(powers)
      A0 == zeros2(N + P, N + P)
      A1 == SetBlock(A0, 0, 0, phs3(xs, xs, eps, None))
      Ap == mvmonos(xs, powers, None)
  IN  SetBlock(A1, 0, N, Ap)

coefficient_matrix(xs, eps, ord) ==
  LET N == Len(xs)
      powers == monomial_powers(ord, 1)
      P == Len(powers)
      A0 == zeros2(N + P, N + P)
      A1 == SetBlock(A0, 0, 0, phs3(xs, xs, eps, None))
      Ap == mvmonos(xs, powers, None)
      A2 == SetBlock(A1, N, 0, Transpose(Ap))
  IN  SetBlock(A2, 0, N, Ap)

regularization_matrix(xs, eps, ord, diff) ==
  LET N == Len(xs)
      powers == monomial_powers(ord, 1)
      P == Len(powers)
      R0 == zeros2(N, N + P)
      R1 == SetBlock(R0, 0, 0, phs3(xs, xs, eps, diff))
  IN  SetBlock(R1, 0, N, mvmonos(xs, powers, diff))

\* fault variant: the polynomial block is written first, the basis block after
interpolation_matrix_polyfirst(xitp, xs, diff, eps, ord) ==
  LET I == Len(xitp)
      N == Len(xs)
      powers == monomial_powers(ord, 1)
      P == Len(powers)
      I0 == zeros2(I, N + P)
      I1 == SetBlock(I0, 0, P, phs3(xitp, xs, eps, diff))
  IN  IF I = 0 THEN <<>> ELSE SetBlock(I1, 0, 0, mvmonos(xitp, powers, diff))

interpolation_matrix(xitp, xs, diff, eps, ord) ==
  LET I == Len(xitp)
      N == Len(xs)
      powers == monomial_powers(ord, 1)
      P == Len(powers)
      I0 == zeros2(I, N + P)
      I1 == SetBlock(I0, 0, 0, phs3(xitp, xs, eps, diff))
  IN  IF I = 0 THEN <<>> ELSE SetBlock(I1, 0, N, mvmonos(xitp, powers, diff))

\* in_hull(p, hull) for one-dimensional points: the dim >= 2 branch
\* (scipy.spatial.Delaunay) is not modelled
RECURSIVE SeqMin(_)
SeqMin(sq) ==
  IF Len(sq) = 1 THEN sq[1]
  ELSE LET m == SeqMin(Tail(sq)) IN IF sq[1] < m THEN sq[1] ELSE m
RECURSIVE SeqMax(_)
SeqMax(sq) ==
  IF Len(sq) = 1 THEN sq[1]
  ELSE LET m == SeqMax(Tail(sq)) IN IF sq[1] > m THEN sq[1] ELSE m

\* fault variant: the bounds are exclusive
in_hull_open(p, hull) ==
  Vec([i \in 1..Len(p) |-> p[i] > SeqMin(hull) /\ p[i] < SeqMax(hull)])

in_hull(p, hull) ==
  Vec([i \in 1..Len(p) |-> p[i] >= SeqMin(hull) /\ p[i] <= SeqMax(hull)])

\* the damped normal matrix ATA + damping**2*LTL of find_coeff
NormalMatrix(a, l, damp) ==
  LET ATA == MatMul(Transpose(a), a)
      LTL == MatMul(Transpose(l), l)
  IN  MatAdd(ATA, MatScale(damp * damp, LTL))

\* fault variant: the P zeros are put in front of value
ExtendValueFront(a, val) == zeros(Rows(a) - Len(val)) \o val

\* value extended with P zeros, P = A.shape[0] - value.shape[0]
ExtendValue(a, val) == val \o zeros(Rows(a) - Len(val))

\* scipy.linalg.inv(ATA + damping**2*LTL).dot(A.T) as a matrix of numerators
\* over the determinant of the normal matrix
GinvNum(a, l, damp) == MatMul(Adj(NormalMatrix(a, l, damp)), Transpose(a))
GinvDen(a, l, damp) == Det(NormalMatrix(a, l, damp))

\* A_ginv.dot(value)
SolveCoeff(a, l, val, damp) ==
  [num |-> MatVec(GinvNum(a, l, damp), ExtendValue(a, val)),
   den |-> GinvDen(a, l, damp)]

\* predictive_error(d) of find_coeff, for 10**d = damping: the term
\* M - product_trace(A,A_ginv) whose square is the denominator of the GCV
\* score.  With A_ginv = G/D the trace is tr/D, so the term is (M*D - tr)/D.
gcv_denominator_root(a, l, damp) ==
  LET M == Rows(a)
      D == GinvDen(a, l, damp)
      tr == product_trace(a, GinvNum(a, l, damp))
  IN  Frac(M * D - tr, D)

\* whether predictive_error returns a finite score at this damping: the
\* numerator M*misfit is finite, and numerator/denominator is inf or nan (no
\* exception) exactly when the denominator is zero
FiniteScore(a, l, damp) == gcv_denominator_root(a, l, damp).num # 0

\* scipy.optimize.fmin(predictive_error, 0.0), then 10**damping.  The search
\* is abstracted to its outcome: one of the probes with a finite score; it
\* has no guard, so when no probe has a finite score it still returns one.
fmin(a, l) ==
  LET finite == {p \in GCVProbes : FiniteScore(a, l, p)}
  IN  IF finite = {} THEN GCVProbes ELSE finite

\* the exception find_coeff(A, L, value, damping) raises for a numeric
\* damping, "" if none: np.zeros of a negative count, the inverse of a
\* singular matrix
find_coeff_err(a, l, val, damp) ==
  IF Rows(a) - Len(val) < 0 THEN "ValueError"
  ELSE IF GinvDen(a, l, damp) = 0 THEN "LinAlgError"
  ELSE ""

\* the exception the GCV search of find_coeff raises: predictive_error
\* inverts the normal matrix at every probe
gcv_err(a, l, val) ==
  IF Rows(a) - Len(val) < 0 THEN "ValueError"
  ELSE IF \E p \in GCVProbes : GinvDen(a, l, p) = 0 THEN "LinAlgError"
  ELSE ""

-----------------------------------------------------------------------------
(* RBFInterpolant.__init__ *)

Fixed(p) == [gcv |-> FALSE, d |-> p]
GCV == [gcv |-> TRUE, d |-> 0]

\* no instance yet
NoSelf ==
  [built |-> FALSE, x |-> <<>>, coeff |-> Frac(<<>>, 1), eps |-> <<>>,
   order |-> 0, extrapolate |-> TRUE, fill |-> NaN]

Arrays(S, maxlen) == UNION {[1..k -> S] : k \in 1..maxlen}

\* weight = np.ones(N) if weight is None else np.asarray(weight)
LocalWeight == IF weight.some THEN weight.v ELSE ones(Len(x))
\* eps = np.ones(N): the model passes eps=None to __init__
LocalEps == ones(Len(x))

\* numpy's in-place a *= b for a of leading length n and b of length w
\* broadcasts b when w = 1 and raises ValueError unless w = n or w = 1
Broadcasts(n, w) == w = n \/ w = 1
BroadcastAt(w, i) == IF Len(w) = 1 THEN w[1] ELSE w[i]

Threads == {"t1", "t2"}

\* no matrix builder called, no Monte Carlo loop running
NoMat ==
  [pc |-> "none", x |-> <<>>, eps |-> <<>>, order |-> 0, diff |-> None,
   xitp |-> <<>>, A |-> <<>>, R |-> <<>>, I |-> <<>>, L |-> <<>>]
NoMC ==
  [pc |-> "none", fn |-> "", N |-> 0, sample_size |-> 0, count |-> 0,
   drawn |-> 0]

\* a thread that is not inside __call__.  chunks records the idx of every
\* pass of the loop, in the order the passes ran.
IdleCall ==
  [pc |-> "idle", xitp |-> <<>>, diff |-> None, max_chunk |-> 1, n |-> 0,
   out |-> <<>>, chunks |-> <<>>]

InitFit ==
  /\ fpc = "start"
  /\ x \in Arrays(0..MaxCoord, MaxN)
  /\ value \in Arrays(ValueSet, MaxN)
  /\ weight \in {None} \cup {Some(w) : w \in Arrays(WeightSet, MaxN)}
  /\ order \in Orders
  /\ penalty \in {Fixed(0)} \cup
                 (IF Len(x) \in DampedSizes THEN {Fixed(1), GCV} ELSE {})
  /\ A = <<>>
  /\ L = <<>>
  /\ self = NoSelf
  /\ damping = 0
  /\ ferr = ""
  /\ call = [t \in Threads |-> IdleCall]
  /\ mat = NoMat
  /\ mc = NoMC

\* A = coefficient_matrix(x,eps=eps,basis=basis,order=order)
BuildMatrix ==
  /\ fpc = "start"
  /\ A' = coefficient_matrix(x, LocalEps, order)
  /\ fpc' = "matrix"
  /\ UNCHANGED <<x, value, weight, order, penalty, L, self, damping, ferr, call, mat, mc>>

\* value *= weight: the local name is the caller's array
ScaledValue ==
  Vec([i \in 1..Len(value) |-> value[i] * BroadcastAt(LocalWeight, i)])

\* A[:N,:] *= weight[:,None] ; value *= weight
ScaleByWeight ==
  /\ fpc = "matrix"
  /\ LET N == Len(x)
         w == LocalWeight
     IN  IF ~Broadcasts(N, Len(w))
         THEN /\ fpc' = "raised"
              /\ ferr' = "ValueError"
              /\ UNCHANGED <<A, value>>
         ELSE /\ A' = [i \in 1..Rows(A) |->
                         IF i <= N
                         THEN [j \in 1..Cols(A) |-> A[i][j] * BroadcastAt(w, i)]
                         ELSE A[i]]
              /\ IF ~Broadcasts(Len(value), Len(w))
                 THEN /\ fpc' = "raised"
                      /\ ferr' = "ValueError"
                      /\ UNCHANGED value
                 ELSE /\ fpc' = "scaled"
                      /\ value' = ScaledValue
                      /\ UNCHANGED ferr
  /\ UNCHANGED <<x, weight, order, penalty, L, self, damping, call, mat, mc>>

RECURSIVE SumMats(_)
SumMats(ms) ==
  IF Len(ms) = 1 THEN ms[1] ELSE MatAdd(ms[1], SumMats(Tail(ms)))

\* L = np.sum(c*regularization_matrix(x,...,diff=d,order=order) for c,d in laplacian)
LaplacianMatrix(xs, eps, ord) ==
  LET laplacian == laplacian_diff_op(1)
  IN  SumMats(Vec([t \in 1..Len(laplacian) |->
        MatScale(laplacian[t].c,
                 regularization_matrix(xs, eps, ord, Some(laplacian[t].d)))]))

BuildRegularization ==
  /\ fpc = "scaled"
  /\ L' = LaplacianMatrix(x, LocalEps, order)
  /\ fpc' = "regularized"
  /\ UNCHANGED <<x, value, weight, order, penalty, A, self, damping, ferr, call, mat, mc>>

\* the instance __init__ stores
Instance(xs, c, eps, ord, extrapolate, fill) ==
  [built |-> TRUE, x |-> xs, coeff |-> c, eps |-> eps, order |-> ord,
   extrapolate |-> extrapolate, fill |-> fill]

\* coeff = find_coeff(A,L,value,penalty) and the assignments to self
FindCoeff ==
  /\ fpc = "regularized"
  /\ LET err == IF penalty.gcv THEN gcv_err(A, L, value)
                ELSE find_coeff_err(A, L, value, penalty.d)
     IN  IF err # ""
         THEN /\ fpc' = "raised"
              /\ ferr' = err
              /\ UNCHANGED <<self, damping>>
         ELSE /\ damping' \in (IF penalty.gcv THEN fmin(A, L) ELSE {penalty.d})
              /\ self' = Instance(x, SolveCoeff(A, L, value, damping'),
                                  LocalEps, order, TRUE, NaN)
              /\ fpc' = "done"
              /\ UNCHANGED ferr
  /\ UNCHANGED <<x, value, weight, order, penalty, A, L, call, mat, mc>>

NextFit ==
  \/ BuildMatrix
  \/ ScaleByWeight
  \/ BuildRegularization
  \/ FindCoeff

SpecFit == InitFit /\ [][NextFit]_vars

-----------------------------------------------------------------------------
(* RBFInterpolant.__call__ *)

\* xitp[idx] for idx = range(lo, hi), 0-based and half-open as in the code
Slice(sq, lo, hi) == Vec([k \in 1..(hi - lo) |-> sq[lo + k]])

Min2(a, b) == IF a < b THEN a ELSE b

\* np.einsum('ij,j...->i...',A,self.coeff) of the interpolation matrix of the
\* points pts
ChunkValues(itp, pts, diff) ==
  LET Am == interpolation_matrix(pts, itp.x, diff, itp.eps, itp.order)
  IN  Vec([i \in 1..Len(pts) |-> Frac(Dot(Am[i], itp.coeff.num), itp.coeff.den)])

\* the first statements of __call__: max_chunk, n = 0, xitp, out = np.zeros(Nitp)
Call(t, q, diff, chunk) ==
  /\ call[t].pc \in {"idle", "done"}
  /\ call' = [call EXCEPT ![t] =
                [pc |-> "loop", xitp |-> q, diff |-> diff, max_chunk |-> chunk,
                 n |-> 0, out |-> Vec([i \in 1..Len(q) |-> Frac(0, 1)]),
                 chunks |-> <<>>]]
  /\ UNCHANGED <<fitvars, mat, mc>>

\* fault variant: n is advanced by one less than the chunk that was written
LoopBodyShortStride(c, itp) ==
  LET Nitp == Len(c.xitp)
      hi == Min2(c.n + c.max_chunk, Nitp)
      vals == ChunkValues(itp, Slice(c.xitp, c.n, hi), c.diff)
  IN  [c EXCEPT
         !.out = Vec([i \in 1..Nitp |->
                    IF i > c.n /\ i <= hi THEN vals[i - c.n] ELSE c.out[i]]),
         !.chunks = Append(c.chunks, Vec([k \in 1..(hi - c.n) |-> c.n + k])),
         !.n = IF c.max_chunk > 1 THEN c.n + c.max_chunk - 1 ELSE c.n + 1]

\* the locals of a call after one more pass of the while loop
LoopBody(c, itp) ==
  LET Nitp == Len(c.xitp)
      hi == Min2(c.n + c.max_chunk, Nitp)
      vals == ChunkValues(itp, Slice(c.xitp, c.n, hi), c.diff)
  IN  [c EXCEPT
         !.out = Vec([i \in 1..Nitp |->
                    IF i > c.n /\ i <= hi THEN vals[i - c.n] ELSE c.out[i]]),
         !.chunks = Append(c.chunks, Vec([k \in 1..(hi - c.n) |-> c.n + k])),
         !.n = c.n + c.max_chunk]

\* fault variant: out is one buffer shared by the running calls of equal
\* query length
ChunkSharedOut(t) ==
  /\ call[t].pc = "loop"
  /\ call[t].n < Len(call[t].xitp)
  /\ LET c == LoopBody(call[t], self)
     IN  call' = [u \in Threads |->
                    IF u = t THEN c
                    ELSE IF call[u].pc = "loop" /\ Len(call[u].out) = Len(c.out)
                    THEN [call[u] EXCEPT !.out = c.out]
                    ELSE call[u]]
  /\ UNCHANGED <<fitvars, mat, mc>>

\* one pass of `while n < Nitp`
Chunk(t) ==
  /\ call[t].pc = "loop"
  /\ call[t].n < Len(call[t].xitp)
  /\ call' = [call EXCEPT ![t] = LoopBody(call[t], self)]
  /\ UNCHANGED <<fitvars, mat, mc>>

\* out[~in_hull(xitp,self.x)] = self.fill
Gate(o, q, itp) ==
  LET inside == in_hull(q, itp.x)
  IN  Vec([i \in 1..Len(o) |-> IF inside[i] THEN o[i] ELSE itp.fill])

\* the loop exit, the hull gate and the return
Return(t) ==
  /\ call[t].pc = "loop"
  /\ call[t].n >= Len(call[t].xitp)
  /\ call' = [call EXCEPT ![t] =
                [@ EXCEPT !.pc = "done",
                          !.out = IF self.extrapolate THEN @
                                  ELSE Gate(@, call[t].xitp, self)]]
  /\ UNCHANGED <<fitvars, mat, mc>>

\* an instance as __init__ leaves it for unit weights and penalty 0
Fitted(xs, val, ord, extrapolate, fill) ==
  LET Am == coefficient_matrix(xs, ones(Len(xs)), ord)
      Lm == LaplacianMatrix(xs, ones(Len(xs)), ord)
  IN  Instance(xs, SolveCoeff(Am, Lm, val, 0), ones(Len(xs)), ord,
               extrapolate, fill)

\* strictly increasing training sets that start at coordinate 0
Increasing(sq) == sq[1] = 0 /\ \A i \in 1..(Len(sq) - 1) : sq[i] < sq[i + 1]

InitCall ==
  /\ fpc = "done"
  /\ x \in {xs \in Arrays(0..MaxCoord, MaxN) : Increasing(xs)}
  /\ order \in {o \in Orders : o < Len(x)}
  /\ value \in [1..Len(x) -> ValueSet]
  /\ weight = None
  /\ penalty = Fixed(0)
  /\ A = coefficient_matrix(x, LocalEps, order)
  /\ L = LaplacianMatrix(x, LocalEps, order)
  /\ damping = 0
  /\ ferr = ""
  /\ find_coeff_err(A, L, value, 0) = ""
  /\ \E extrapolate \in BOOLEAN :
       \E fill \in (IF extrapolate THEN {NaN} ELSE {NaN, Frac(0, 1)}) :
         self = Fitted(x, value, order, extrapolate, fill)
  /\ call = [t \in Threads |-> IdleCall]
  /\ mat = NoMat
  /\ mc = NoMC

\* query coordinates: left of every training point, the least and the
\* greatest training coordinate
QueryCoords == {-1, 0, MaxCoord}
Queries == {<<>>} \cup Arrays(QueryCoords, MaxItp)
Diffs == {None, Some(<<1>>)}

\* one caller, one call
NextCall ==
  \/ \E q \in Queries, diff \in Diffs, chunk \in 1..MaxChunk :
       call["t1"].pc = "idle" /\ Call("t1", q, diff, chunk)
  \/ Chunk("t1")
  \/ Return("t1")

SpecCall == InitCall /\ [][NextCall]_vars

\* queries of the concurrent callers
ConcQueries == {<<>>, <<1>>, <<-1, 0>>, <<0, 1>>, <<0, MaxCoord + 1, 1>>}

NextConc ==
  \E t \in Threads :
    \/ \E q \in ConcQueries, chunk \in 1..MaxChunk : Call(t, q, None, chunk)
    \/ Chunk(t)
    \/ Return(t)

SpecConc == InitCall /\ [][NextConc]_vars

-----------------------------------------------------------------------------
(* The matrix builders as functions of their arguments *)

MatQueries == {<<>>, <<1>>, <<-1, 0>>, <<0, MaxCoord + 1, 1>>}

InitMat ==
  /\ fpc = "start" /\ x = <<>> /\ value = <<>> /\ weight = None /\ order = 0
  /\ penalty = Fixed(0) /\ A = <<>> /\ L = <<>> /\ self = NoSelf
  /\ damping = 0 /\ ferr = ""
  /\ call = [t \in Threads |-> IdleCall]
  /\ mc = NoMC
  /\ \E xs \in Arrays(0..MaxCoord, MaxN), ord \in Orders,
        diff \in {None, Some(<<1>>), Some(<<2>>)}, q \in MatQueries :
       \E eps \in [1..Len(xs) -> {1, 2}] :
         mat = [NoMat EXCEPT !.pc = "args", !.x = xs, !.eps = eps,
                             !.order = ord, !.diff = diff, !.xitp = q]

CallCoefficientMatrix ==
  /\ mat.pc = "args"
  /\ mat' = [mat EXCEPT !.pc = "A",
                        !.A = coefficient_matrix(mat.x, mat.eps, mat.order)]
  /\ UNCHANGED <<fitvars, call, mc>>

CallRegularizationMatrix ==
  /\ mat.pc = "A"
  /\ mat' = [mat EXCEPT !.pc = "R",
               !.R = regularization_matrix(mat.x, mat.eps, mat.order, mat.diff)]
  /\ UNCHANGED <<fitvars, call, mc>>

CallInterpolationMatrix ==
  /\ mat.pc = "R"
  /\ mat' = [mat EXCEPT !.pc = "I",
               !.I = interpolation_matrix(mat.xitp, mat.x, mat.diff, mat.eps,
                                          mat.order)]
  /\ UNCHANGED <<fitvars, call, mc>>

\* the L of __init__ for these points
CallLaplacian ==
  /\ mat.pc = "I"
  /\ mat' = [mat EXCEPT !.pc = "done",
                        !.L = LaplacianMatrix(mat.x, mat.eps, mat.order)]
  /\ UNCHANGED <<fitvars, call, mc>>

NextMat ==
  \/ CallCoefficientMatrix
  \/ CallRegularizationMatrix
  \/ CallInterpolationMatrix
  \/ CallLaplacian

SpecMat == InitMat /\ [][NextMat]_vars

-----------------------------------------------------------------------------
(* rbf/normalize.py: the batching loops of mcint and mcmax *)

\* sample_size = 1000000
SampleSize == 1000000
\* requested sample counts reach MaxBatches full batches and a remainder
MaxBatches == 2
Remainders == {0, 1, 2, 499999, 500000, 999998, 999999}

\* N as given, or 200**dim for N=None with dim 2 or 3
SampleCounts ==
  {b * SampleSize + r : b \in 0..MaxBatches, r \in Remainders}
    \cup {Pow(200, dim) : dim \in {2, 3}}

InitMC ==
  /\ fpc = "start" /\ x = <<>> /\ value = <<>> /\ weight = None /\ order = 0
  /\ penalty = Fixed(0) /\ A = <<>> /\ L = <<>> /\ self = NoSelf
  /\ damping = 0 /\ ferr = ""
  /\ call = [t \in Threads |-> IdleCall]
  /\ mat = NoMat
  /\ \E fn \in {"mcint", "mcmax"}, N \in SampleCounts :
       mc = [pc |-> "loop", fn |-> fn, N |-> N, sample_size |-> SampleSize,
             count |-> 0, drawn |-> 0]

\* fault variant: the batch is not clamped to the samples that remain
BatchSizeUnclamped(m) == m.sample_size

\* sample_size after `if (count + sample_size) > N: sample_size = N - count`
BatchSize(m) ==
  IF m.count + m.sample_size > m.N THEN m.N - m.count ELSE m.sample_size

\* one pass of `while count < N`: H(sample_size) draws the batch
Batch ==
  /\ mc.pc = "loop"
  /\ mc.count < mc.N
  /\ mc' = [mc EXCEPT !.sample_size = BatchSize(mc),
                      !.drawn = @ + BatchSize(mc),
                      !.count = @ + BatchSize(mc)]
  /\ UNCHANGED <<fitvars, call, mat>>

\* mcmax: np.max(val) raises ValueError when no point of the batch lies
\* inside the boundary; the batch has been drawn, count is not yet advanced
BatchEmpty ==
  /\ mc.pc = "loop"
  /\ mc.fn = "mcmax"
  /\ mc.count < mc.N
  /\ mc' = [mc EXCEPT !.sample_size = BatchSize(mc),
                      !.drawn = @ + BatchSize(mc),
                      !.pc = "raised"]
  /\ UNCHANGED <<fitvars, call, mat>>

\* the loop condition count < N is false
LoopExit ==
  /\ mc.pc = "loop"
  /\ mc.count >= mc.N
  /\ mc' = [mc EXCEPT !.pc = "exit"]
  /\ UNCHANGED <<fitvars, call, mat>>

\* after the loop: mcint divides soln by N (0/0 raises ZeroDivisionError
\* under `from __future__ import division`), mcmax returns soln
Finish ==
  /\ mc.pc = "exit"
  /\ mc' = [mc EXCEPT !.pc = IF mc.fn = "mcint" /\ mc.N = 0 THEN "raised"
                              ELSE "done"]
  /\ UNCHANGED <<fitvars, call, mat>>

NextMC == Batch \/ BatchEmpty \/ LoopExit \/ Finish

SpecMC == InitMC /\ [][NextMC]_vars

-----------------------------------------------------------------------------
(* Properties *)

\* the interpolant at one point: row of the interpolation matrix of that
\* point times the coefficients
PointValue(itp, pt, diff) == ChunkValues(itp, <<pt>>, diff)[1]

RECURSIVE Flatten(_)
Flatten(ss) == IF ss = <<>> THEN <<>> ELSE Head(ss) \o Flatten(Tail(ss))

Iota(n) == Vec([i \in 1..n |-> i])

\* C1: chunk invariance of __call__.  While the loop runs, n is the number
\* of passes times max_chunk and stays below Nitp + max_chunk (so the loop
\* ends after at most Nitp passes), every chunk holds between 1 and max_chunk
\* indices, the chunks written so far are the indices 1 .. min(n, Nitp) in
\* increasing order with none repeated, and out holds the value of query
\* point i at each written index i and zero elsewhere.  Before the hull gate
\* out is therefore the evaluation of all points in one chunk, aligned with
\* the input.
C1_ChunkInvariance ==
  LET c == call["t1"]
      Nitp == Len(c.xitp)
      done == Min2(c.n, Nitp)
  IN  c.pc \in {"loop", "done"} =>
        /\ c.n = Len(c.chunks) * c.max_chunk
        /\ c.n < Nitp + c.max_chunk
        /\ Len(c.chunks) <= Nitp
        /\ \A k \in 1..Len(c.chunks) :
             Len(c.chunks[k]) >= 1 /\ Len(c.chunks[k]) <= c.max_chunk
        /\ Flatten(c.chunks) = Iota(done)
        /\ Len(c.out) = Nitp
        /\ c.pc = "done" => done = Nitp
        /\ c.pc = "loop" =>
             \A i \in 1..Nitp :
               c.out[i] = IF i <= done THEN PointValue(self, c.xitp[i], c.diff)
                          ELSE Frac(0, 1)
        /\ (c.pc = "loop" /\ done = Nitp) =>
             c.out = ChunkValues(self, c.xitp, c.diff)
        /\ (c.pc = "done" /\ self.extrapolate) =>
             c.out = ChunkValues(self, c.xitp, c.diff)

\* a call whose last chunk is shorter than max_chunk has returned
C1_Witness ==
  LET c == call["t1"]
  IN  /\ c.pc = "done" /\ c.max_chunk > 1 /\ Len(c.chunks) >= 2
      /\ Len(c.xitp) % c.max_chunk # 0 /\ self.extrapolate
      /\ \E i, j \in 1..Len(c.out) : c.out[i] # c.out[j]

UnitWeights == \A i \in 1..Len(LocalWeight) : LocalWeight[i] = 1

\* C3: interpolation exactness.  After a successful __init__ with penalty 0,
\* unit weights and as many values as points, the coefficients cn/D satisfy
\* A*cn = D*[value; 0] with D # 0, and the interpolant evaluated at training
\* point i is value_i.
C3_Exactness ==
  (fpc = "done" /\ penalty = Fixed(0) /\ UnitWeights /\ Len(value) = Len(x)) =>
    LET D == self.coeff.den
        ext == value \o zeros(Rows(A) - Len(value))
        at == ChunkValues(self, self.x, None)
    IN  /\ D # 0
        /\ Len(self.coeff.num) = Rows(A)
        /\ \A i \in 1..Rows(A) : Dot(A[i], self.coeff.num) = D * ext[i]
        /\ \A i \in 1..Len(x) : at[i].den = D /\ at[i].num = D * value[i]

\* two points with different values fitted with a linear polynomial term
C3_Witness ==
  /\ fpc = "done" /\ penalty = Fixed(0) /\ UnitWeights
  /\ Len(x) = 2 /\ Len(value) = 2 /\ value[1] # value[2] /\ order = 1

\* C4: no step of __init__ changes the caller's value array or weight array
C4_NoMutation == [][value' = value /\ weight' = weight]_vars

\* C5: when the length of value or of weight differs from the number of
\* training points, __init__ does not produce an instance
C5_DimensionMismatch ==
  (Len(value) # Len(x) \/ (weight.some /\ Len(weight.v) # Len(x))) =>
    (fpc # "done" /\ ~self.built)

\* C6: in GCV mode no coefficients are returned from a search that ended on
\* a damping whose GCV denominator is zero
C6_IllConditioned ==
  (fpc = "done" /\ penalty.gcv) => FiniteScore(A, L, damping)

\* what a call returns when it runs with no other call
AloneResult(itp, q, diff) ==
  LET vals == ChunkValues(itp, q, diff)
  IN  IF itp.extrapolate THEN vals ELSE Gate(vals, q, itp)

\* C7: evaluation is read-only.  Every step of concurrent calls leaves the
\* instance as it was, changes the locals of one call only, and a call that
\* has returned holds the result it returns when run alone.
C7_ReadOnly ==
  [][/\ self' = self
     /\ \A t, u \in Threads :
          (t # u /\ call'[t] # call[t]) => call'[u] = call[u]
     /\ \A t \in Threads :
          call'[t].pc = "done" =>
            call'[t].out = AloneResult(self, call'[t].xitp, call'[t].diff)]_vars

\* both callers are inside the loop, one of them past its first chunk
C7_Witness ==
  /\ call["t1"].pc = "loop" /\ call["t2"].pc = "loop"
  /\ call["t1"].n > 0 /\ call["t1"].n < Len(call["t1"].xitp)
  /\ Len(call["t2"].xitp) = Len(call["t1"].xitp)
  /\ call["t2"].xitp # call["t1"].xitp

\* C8: coefficient_matrix returns a square (N+P)x(N+P) matrix: top-left
\* basis(x,x), top-right Ap, bottom-left the transpose of Ap, bottom-right
\* zero; it is symmetric whenever the basis block is.
C8_BlockStructure ==
  mat.pc \in {"A", "R", "I", "done"} =>
    LET N == Len(mat.x)
        powers == monomial_powers(mat.order, 1)
        P == Len(powers)
        B == phs3(mat.x, mat.x, mat.eps, None)
        Ap == mvmonos(mat.x, powers, None)
    IN  /\ Rows(mat.A) = N + P
        /\ \A i \in 1..(N + P) : Len(mat.A[i]) = N + P
        /\ \A i, j \in 1..N : mat.A[i][j] = B[i][j]
        /\ \A i \in 1..N, k \in 1..P :
             mat.A[i][N + k] = Ap[i][k] /\ mat.A[N + k][i] = Ap[i][k]
        /\ \A k, l \in 1..P : mat.A[N + k][N + l] = 0
        /\ (B = Transpose(B)) => (mat.A = Transpose(mat.A))

\* a matrix of two distinct points and two monomials with a symmetric basis
\* block
C8_Witness ==
  /\ mat.pc = "A" /\ Len(mat.x) = 2 /\ mat.x[1] # mat.x[2] /\ mat.order = 1
  /\ mat.eps[1] = mat.eps[2]
  /\ mat.A = Transpose(mat.A)

\* entry (row point p, column j) of the shared layout: the basis function
\* centred at training point j for j <= N, the monomial j - N after
LayoutEntry(pt, j, diff) ==
  LET N == Len(mat.x)
      powers == monomial_powers(mat.order, 1)
  IN  IF j <= N
      THEN phs3(<<pt>>, <<mat.x[j]>>, <<mat.eps[j]>>, diff)[1][1]
      ELSE mvmonos(<<pt>>, <<powers[j - N]>>, diff)[1][1]

C10_Batching ==
  /\ mc.pc # "none" =>
       /\ mc.count <= mc.N
       /\ mc.sample_size <= SampleSize
       /\ mc.sample_size >= 0
  /\ (mc.pc = "loop" /\ mc.count < mc.N) =>
       (BatchSize(mc) >= 1 /\ mc.count + BatchSize(mc) <= mc.N)
  /\ mc.pc \in {"loop", "exit", "done"} => mc.drawn = mc.count
  /\ mc.pc \in {"exit", "done"} =>
       /\ mc.count = mc.N
       /\ mc.N % SampleSize # 0 => mc.sample_size = mc.N % SampleSize

\* two full batches and a last batch of one sample
C10_Witness ==
  /\ mc.pc = "done" /\ mc.N = 2 * SampleSize + 1 /\ mc.count = mc.N
  /\ mc.sample_size = 1

====
